---- MODULE Spec2Model ----
(***************************************************************************)
(* YoutubeTranscriberGUI: the audio splitting and transcription pipeline   *)
(* of youtube_transcriber.py (command line) and youtube_transcriber_gui.py *)
(* (Tk front end).  Both files hold the same split_audio_intelligently and *)
(* near-identical run loops; where they differ the model branches on app.  *)
(***************************************************************************)
EXTENDS Integers, Sequences, FiniteSets, TLC

VARIABLES
    app,                     \* "cli" (main), "gui" (run_transcription_process), "none" (split alone)
    engine,                  \* "whisper" | "google"
    whisper_available,       \* module-level flag set by the import of whisper
    pc,                      \* position of the run
    temp_dir,                \* "unset" | "created" | "removed"
    audio_len,               \* len(audio) in ms
    silence_out,             \* lengths of the segments split_on_silence returns
    chunks,                  \* candidate segments handed to the bounding loop
    chunk_length_limit_ms,
    i,                       \* position of the bounding loop in chunks (1-based)
    j,                       \* sub-chunk counter of the segment being time-split
    num_sub_chunks,
    sub_chunk_len,           \* the float len(chunk) / num_sub_chunks
    subs,                    \* every (start_ms, end_ms) computed for split segments
    processed_chunks_paths,  \* exported chunk files, in order of export
    total_chunks,
    export_failures,         \* exports that raised so far
    chunk_paths,             \* what the caller received from split_audio_intelligently
    ci,                      \* position of the transcription loop in chunk_paths (1-based)
    results,                 \* per-chunk record of what the backend did
    full_transcript,         \* texts appended by the loop
    final_text,
    outcome,                 \* how the run ended
    calls,                   \* chunks whose backend call has been started, in order
    model_loads,             \* whisper.load_model calls made by the run
    returned,                \* what run_transcription_process returned: "none" | "True" | "False"
    after_queue,             \* callbacks scheduled with after(0, ...) and not yet run
    url,                     \* the stripped text of the URL entry
    start_button,            \* state of the Start button: "normal" | "disabled"
    save_button,             \* state of the Save button
    output_text,             \* content of the output widget
    workers,                 \* live threads running run_transcription_wrapper
    runs,                    \* runs started so far
    completions,             \* executions of on_transcription_complete so far
    dialog,                  \* the last message box shown: "none" | "info" | "error"
    saved_file,              \* what save_transcript last wrote
    cancel_requested,        \* the user has asked for the run to be cancelled
    rmtree_calls,            \* shutil.rmtree(temp_dir) calls made by the run
    temp_files               \* files in the directory temp_dir names

vars == <<app, engine, whisper_available, pc, temp_dir, audio_len, silence_out, chunks,
          chunk_length_limit_ms, i, j, num_sub_chunks, sub_chunk_len, subs,
          processed_chunks_paths, total_chunks, export_failures, chunk_paths, ci,
          results, full_transcript, final_text, outcome, calls, model_loads, returned,
          after_queue, url, start_button, save_button, output_text, workers, runs,
          completions, dialog, saved_file, cancel_requested, rmtree_calls,
          temp_files>>

splitVars == <<audio_len, silence_out, chunks, chunk_length_limit_ms, i, j, num_sub_chunks,
               sub_chunk_len, subs, processed_chunks_paths, total_chunks, export_failures>>

runVars == <<app, engine, whisper_available, temp_dir, chunk_paths, ci, results,
             full_transcript, final_text, outcome>>

\* the temporary directory on disk and its removal
tmpVars == <<rmtree_calls, temp_files>>

\* what only the user and the Tk main thread touch
uiVars == <<url, start_button, save_button, completions, dialog, saved_file,
            cancel_requested>>

----------------------------------------------------------------------------
(* Program constants *)

DEFAULT_CHUNK_LENGTH_MS == 60 * 1000

\* default of the chunk_length_limit_ms parameter; no caller passes another value
DEFAULT_LIMIT == DEFAULT_CHUNK_LENGTH_MS * 2

\* "if len(chunk) < 100": segments shorter than this are skipped
MIN_CHUNK_MS == 100

\* significand width of a Python float (IEEE-754 binary64)
MantBits == 53

----------------------------------------------------------------------------
(* Bounds of the model *)

MaxSegs == 2             \* segments split_on_silence returns
MaxSub == 7              \* sub-chunks one segment is split into
MaxExportFailures == 1   \* exports that raise in one call

\* lengths (ms) of segments and of whole recordings
SegLens == {50, 61, 100, 151, 120000, 130000}

\* values of chunk_length_limit_ms the splitting is exercised with
Limits == {9, 150, DEFAULT_LIMIT}

----------------------------------------------------------------------------
(* Python float arithmetic.  A float is [m |-> significand bits, least      *)
(* significant first, k |-> number of those bits after the binary point]:  *)
(* its value is m * 2^(-k).  Every operation rounds to MantBits bits, ties  *)
(* to even, as CPython's int / int and float * float do.                    *)

RECURSIVE NatBits(_)
NatBits(n) == IF n = 0 THEN <<>> ELSE <<n % 2>> \o NatBits(n \div 2)

\* the number whose bits, lowest first, are b
BitsNat(b) ==
    LET val[n \in 0..Len(b)] == IF n = Len(b) THEN 0 ELSE b[n + 1] + 2 * val[n + 1]
    IN  val[0]

RECURSIVE Inc(_)
Inc(b) ==
    IF b = <<>> THEN <<1>>
    ELSE IF b[1] = 0 THEN <<1>> \o Tail(b)
    ELSE <<0>> \o Inc(Tail(b))

\* k more quotient bits of r / n by long division; acc holds the bits so far
RECURSIVE DivStep(_, _, _, _)
DivStep(r, n, k, acc) ==
    IF k = 0 THEN [bits |-> acc, rem |-> r]
    ELSE DivStep((2 * r) % n, n, k - 1, <<(2 * r) \div n>> \o acc)

\* a / n for integers a >= n >= 1, correctly rounded
TrueDiv(a, n) ==
    LET q0 == NatBits(a \div n)
        k  == MantBits - Len(q0)
        d  == DivStep(a % n, n, k, q0)
        up == \/ 2 * d.rem > n
              \/ 2 * d.rem = n /\ d.bits[1] = 1
    IN  [m |-> IF up THEN Inc(d.bits) ELSE d.bits, k |-> k]

\* the bits of b * c + carry by schoolbook multiplication; cr[n] is the carry
\* out of bit n
MulSmall(b, c, carry) ==
    LET cr[n \in 0..Len(b)] == IF n = 0 THEN carry ELSE (b[n] * c + cr[n - 1]) \div 2
    IN  [n \in 1..Len(b) |-> (b[n] * c + cr[n - 1]) % 2] \o NatBits(cr[Len(b)])

\* round a significand to MantBits bits, ties to even; drop = bits removed
RoundBits(b) ==
    IF Len(b) <= MantBits THEN [m |-> b, drop |-> 0]
    ELSE LET d      == Len(b) - MantBits
             kept   == SubSeq(b, d + 1, Len(b))
             sticky == \E t \in 1..(d - 1) : b[t] = 1
             up     == b[d] = 1 /\ (sticky \/ kept[1] = 1)
         IN  [m |-> IF up THEN Inc(kept) ELSE kept, drop |-> d]

\* c * x for an integer c >= 0 and a float x: the exact product, rounded once
FloatMul(c, x) ==
    IF c = 0 THEN [m |-> <<>>, k |-> 0]
    ELSE CHOOSE y \in {[m |-> r.m, k |-> x.k - r.drop] :
                        r \in {RoundBits(exact) : exact \in {MulSmall(x.m, c, 0)}}} : TRUE

\* int(x) for a float x >= 0
FloatFloor(x) ==
    IF x.k >= Len(x.m) THEN 0 ELSE BitsNat(SubSeq(x.m, x.k + 1, Len(x.m)))

FloatHasFraction(x) ==
    \E t \in 1..x.k : t <= Len(x.m) /\ x.m[t] = 1

\* n < x for an integer n and a float x
IntLtFloat(n, x) ==
    \/ FloatFloor(x) > n
    \/ FloatFloor(x) = n /\ FloatHasFraction(x)

\* int(min(x, n))
IntMin(x, n) == IF IntLtFloat(n, x) THEN n ELSE FloatFloor(x)

----------------------------------------------------------------------------
(* split_audio_intelligently *)

RECURSIVE Sum(_)
Sum(s) == IF s = <<>> THEN 0 ELSE s[1] + Sum(Tail(s))

SeqsUpTo(S, n) == UNION {[1..m -> S] : m \in 0..n}

\* a slip: floor instead of ceiling division
NumSubChunks_Floor(len, limit) == len \div limit

\* num_sub_chunks = (len(chunk) + chunk_length_limit_ms - 1) // chunk_length_limit_ms
NumSubChunks(len, limit) == (len + limit - 1) \div limit

\* a slip: whole-millisecond blocks of ceil(len / n), the remainder left to the last one
SubChunkLen_Blocks(len, n) == [m |-> NatBits((len + n - 1) \div n), k |-> 0]

\* sub_chunk_len = len(chunk) / num_sub_chunks
SubChunkLen(len, n) == TrueDiv(len, n)

\* start_ms = int(j * sub_chunk_len)
StartMs(jj, s) == CHOOSE ms \in {FloatFloor(y) : y \in {FloatMul(jj, s)}} : TRUE

\* end_ms = int(min((j + 1) * sub_chunk_len, len(chunk)))
EndMs(jj, s, len) == CHOOSE ms \in {IntMin(y, len) : y \in {FloatMul(jj + 1, s)}} : TRUE

\* a slip: no fallback to the whole recording
Candidates_NoFallback(segs, audio) == segs

\* "if not chunks: chunks = [audio]"
Candidates(segs, audio) == IF segs = <<>> THEN <<audio>> ELSE segs

\* "if len(chunk) < 100: continue"
TooShort(len) == len < MIN_CHUNK_MS

\* the number in f"chunk_{total_chunks}.wav"
ChunkName(total, seg) == total

\* a slip: the counter advances whether or not the export succeeded
NextTotal_Always(total, ok) == total + 1

\* total_chunks after an export: "total_chunks += 1" follows a successful export only
NextTotal(total, ok) == IF ok THEN total + 1 ELSE total

\* segment lengths that split into at most MaxSub sub-chunks under the limit
LensFor(limit) == {l \in SegLens : l <= MaxSub * limit}

CurLen == chunks[i]

----------------------------------------------------------------------------
(* Progress messages *)

\* one scheduled callback per message: lambda: _update_output(message, output_widget)
LogItems(msgs) == [k \in 1..Len(msgs) |-> [op |-> "log", arg |-> <<msgs[k]>>]]

\* message + "\n" for each message
RECURSIVE Lines(_)
Lines(msgs) == IF msgs = <<>> THEN <<>> ELSE <<msgs[1], "\n">> \o Lines(Tail(msgs))

\* a slip: the text widget is written from the calling thread
log_message_Direct(msgs, q, w) ==
    [after_queue |-> q,
     output_text |-> [state |-> "disabled", text |-> w.text \o Lines(msgs)]]

\* log_message(message, output_widget) for each message in turn:
\* output_widget.after(0, ...) puts the update on the Tk queue
log_message(msgs, q, w) == [after_queue |-> q \o LogItems(msgs), output_text |-> w]

\* status_callback of the GUI is log_message; the command line prints instead
status_callback(msgs) ==
    IF app = "gui"
    THEN LET e == log_message(msgs, after_queue, output_text)
         IN  after_queue' = e.after_queue /\ output_text' = e.output_text
    ELSE UNCHANGED <<after_queue, output_text>>

\* audio = AudioSegment.from_wav(...); chunks = split_on_silence(...); fallback
SplitLoad ==
    /\ pc = "split_entry"
    /\ chunks' = Candidates(silence_out, audio_len)
    /\ i' = 1
    /\ pc' = "split_loop"
    /\ UNCHANGED <<audio_len, silence_out, chunk_length_limit_ms, j, num_sub_chunks,
                   sub_chunk_len, subs, processed_chunks_paths, total_chunks,
                   export_failures>>
    /\ UNCHANGED runVars
    /\ UNCHANGED <<calls, model_loads, returned, workers, runs>>
    /\ status_callback(<<"Loading audio file for splitting", "Audio loaded">>
                       \o (IF silence_out = <<>> THEN <<"No silence detected">> ELSE <<>>))
    /\ UNCHANGED uiVars
    /\ UNCHANGED tmpVars

\* the file is missing, or from_wav / split_on_silence raises: "return []"
SplitLoadError ==
    /\ pc = "split_entry"
    /\ chunk_paths' = <<>>
    /\ pc' = "split_returned"
    /\ UNCHANGED splitVars
    /\ UNCHANGED <<app, engine, whisper_available, temp_dir, ci, results,
                   full_transcript, final_text, outcome>>
    /\ UNCHANGED <<calls, model_loads, returned, workers, runs>>
    /\ status_callback(<<"ERROR during audio splitting">>)
    /\ UNCHANGED uiVars
    /\ UNCHANGED tmpVars

\* a segment within the limit but shorter than 100 ms is skipped
SegSkip ==
    /\ pc = "split_loop"
    /\ i <= Len(chunks)
    /\ CurLen <= chunk_length_limit_ms
    /\ TooShort(CurLen)
    /\ i' = i + 1
    /\ UNCHANGED <<pc, audio_len, silence_out, chunks, chunk_length_limit_ms, j,
                   num_sub_chunks, sub_chunk_len, subs, processed_chunks_paths,
                   total_chunks, export_failures>>
    /\ UNCHANGED runVars
    /\ UNCHANGED <<calls, model_loads, returned, workers, runs>>
    /\ UNCHANGED <<after_queue, output_text>>
    /\ UNCHANGED uiVars
    /\ UNCHANGED tmpVars

\* os.path.join(temp_dir, f"chunk_{total_chunks}.wav")
ChunkFile(name) == [kind |-> "chunk", name |-> name]

\* os.path.join(temp_dir, "downloaded_audio.wav")
AudioFile == [kind |-> "audio", name |-> 0]

\* chunk.export(chunk_filename): ok = FALSE when it raises (caught, logged)
Export(ok, seg, start, end) ==
    /\ ok \/ export_failures < MaxExportFailures
    /\ processed_chunks_paths' =
          IF ok
          THEN Append(processed_chunks_paths,
                      [name |-> ChunkName(total_chunks, seg), seg |-> seg,
                       start_ms |-> start, end_ms |-> end])
          ELSE processed_chunks_paths
    /\ total_chunks' = NextTotal(total_chunks, ok)
    /\ export_failures' = IF ok THEN export_failures ELSE export_failures + 1
    /\ temp_files' = IF ok THEN temp_files \cup {ChunkFile(ChunkName(total_chunks, seg))}
                     ELSE temp_files
    /\ UNCHANGED rmtree_calls
    /\ status_callback(IF ok THEN <<"Exporting chunk">>
                       ELSE <<"Exporting chunk", "ERROR exporting chunk">>)

\* a segment within the limit and long enough is exported whole
SegExport ==
    /\ pc = "split_loop"
    /\ i <= Len(chunks)
    /\ CurLen <= chunk_length_limit_ms
    /\ ~TooShort(CurLen)
    /\ \E ok \in BOOLEAN : Export(ok, i, 0, CurLen)
    /\ i' = i + 1
    /\ UNCHANGED <<pc, audio_len, silence_out, chunks, chunk_length_limit_ms, j,
                   num_sub_chunks, sub_chunk_len, subs>>
    /\ UNCHANGED runVars
    /\ UNCHANGED <<calls, model_loads, returned, workers, runs>>
    /\ UNCHANGED uiVars

\* a segment over the limit: compute num_sub_chunks and sub_chunk_len
SegSplitBegin ==
    /\ pc = "split_loop"
    /\ i <= Len(chunks)
    /\ CurLen > chunk_length_limit_ms
    /\ num_sub_chunks' = NumSubChunks(CurLen, chunk_length_limit_ms)
    /\ sub_chunk_len' = SubChunkLen(CurLen, num_sub_chunks')
    /\ j' = 0
    /\ pc' = "split_sub"
    /\ UNCHANGED <<audio_len, silence_out, chunks, chunk_length_limit_ms, i, subs,
                   processed_chunks_paths, total_chunks, export_failures>>
    /\ UNCHANGED runVars
    /\ UNCHANGED <<calls, model_loads, returned, workers, runs>>
    /\ status_callback(<<"Chunk too long, splitting">>)
    /\ UNCHANGED uiVars
    /\ UNCHANGED tmpVars

\* one pass of "for j in range(num_sub_chunks)"
SubChunk ==
    /\ pc = "split_sub"
    /\ j < num_sub_chunks
    /\ LET start_ms == StartMs(j, sub_chunk_len)
           end_ms   == EndMs(j, sub_chunk_len, CurLen)
       IN  /\ subs' = Append(subs, [seg |-> i, j |-> j, start_ms |-> start_ms,
                                    end_ms |-> end_ms])
           /\ IF start_ms >= end_ms
              THEN UNCHANGED <<processed_chunks_paths, total_chunks, export_failures,
                               after_queue, output_text, rmtree_calls, temp_files>>
              ELSE \E ok \in BOOLEAN : Export(ok, i, start_ms, end_ms)
    /\ j' = j + 1
    /\ UNCHANGED <<pc, audio_len, silence_out, chunks, chunk_length_limit_ms, i,
                   num_sub_chunks, sub_chunk_len>>
    /\ UNCHANGED runVars
    /\ UNCHANGED <<calls, model_loads, returned, workers, runs>>
    /\ UNCHANGED uiVars

\* the inner loop ends: on to the next segment
SubDone ==
    /\ pc = "split_sub"
    /\ j >= num_sub_chunks
    /\ i' = i + 1
    /\ pc' = "split_loop"
    /\ UNCHANGED <<audio_len, silence_out, chunks, chunk_length_limit_ms, j,
                   num_sub_chunks, sub_chunk_len, subs, processed_chunks_paths,
                   total_chunks, export_failures>>
    /\ UNCHANGED runVars
    /\ UNCHANGED <<calls, model_loads, returned, workers, runs>>
    /\ UNCHANGED <<after_queue, output_text>>
    /\ UNCHANGED uiVars
    /\ UNCHANGED tmpVars

\* "return processed_chunks_paths"
SplitReturn ==
    /\ pc = "split_loop"
    /\ i > Len(chunks)
    /\ chunk_paths' = processed_chunks_paths
    /\ pc' = "split_returned"
    /\ UNCHANGED splitVars
    /\ UNCHANGED <<app, engine, whisper_available, temp_dir, ci, results,
                   full_transcript, final_text, outcome>>
    /\ UNCHANGED <<calls, model_loads, returned, workers, runs>>
    /\ status_callback(<<"Audio split into chunks">>)
    /\ UNCHANGED uiVars
    /\ UNCHANGED tmpVars

NextSplit ==
    \/ SplitLoad
    \/ SplitLoadError
    \/ SegSkip
    \/ SegExport
    \/ SegSplitBegin
    \/ SubChunk
    \/ SubDone
    \/ SplitReturn

\* the state of the splitter before its first statement
SplitFresh ==
    /\ chunks = <<>>
    /\ i = 0
    /\ j = 0
    /\ num_sub_chunks = 0
    /\ sub_chunk_len = [m |-> <<>>, k |-> 0]
    /\ subs = <<>>
    /\ processed_chunks_paths = <<>>
    /\ total_chunks = 0
    /\ export_failures = 0

\* what split_on_silence may return for a recording: segments that fit in it
SplitInput(limit, lens) ==
    /\ chunk_length_limit_ms = limit
    /\ \E s \in SeqsUpTo(lens, MaxSegs) :
          /\ silence_out = s
          /\ audio_len \in (IF s = <<>> THEN lens ELSE {Sum(s)})

RunIdle ==
    /\ temp_dir = "unset"
    /\ chunk_paths = <<>>
    /\ ci = 0
    /\ results = <<>>
    /\ full_transcript = <<>>
    /\ final_text = <<>>
    /\ outcome = "none"
    /\ calls = <<>>
    /\ model_loads = 0
    /\ returned = "none"
    /\ rmtree_calls = 0
    /\ temp_files = {}

\* the window as TranscriptionApp.__init__ leaves it: Start enabled, Save
\* disabled, the output empty, nothing scheduled
UiFresh ==
    /\ after_queue = <<>>
    /\ start_button = "normal"
    /\ save_button = "disabled"
    /\ output_text = [state |-> "disabled", text |-> <<>>]
    /\ workers = 0
    /\ runs = 0
    /\ completions = 0
    /\ dialog = "none"
    /\ saved_file = [written |-> FALSE, text |-> <<>>]
    /\ cancel_requested = FALSE

\* split_audio_intelligently called on its own, with any limit
InitSplit ==
    /\ app = "none"
    /\ engine = "google"
    /\ whisper_available = TRUE
    /\ pc = "split_entry"
    /\ \E limit \in Limits : SplitInput(limit, LensFor(limit))
    /\ SplitFresh
    /\ RunIdle
    /\ UiFresh
    /\ url = "u"

SplitSpec == InitSplit /\ [][NextSplit]_vars

----------------------------------------------------------------------------
(* The run: main (command line) and run_transcription_process (GUI) *)

\* upper bound (ms) on the recordings a whole run is exercised with
MaxRunAudio == 130200

\* segment lengths a whole run is exercised with
RunLens == {50, 100, 130000}

\* what a backend may hand back before .strip(): text, padded text, blank
RawTexts == {<<"a">>, <<" ", "b", " ">>, <<" ">>}

\* whitespace as str.strip() sees it
IsSpace(c) == c \in {" ", "\n"}

RECURSIVE StripLeft(_)
StripLeft(t) == IF t # <<>> /\ IsSpace(t[1]) THEN StripLeft(Tail(t)) ELSE t

RECURSIVE StripRight(_)
StripRight(t) ==
    IF t # <<>> /\ IsSpace(t[Len(t)]) THEN StripRight(SubSeq(t, 1, Len(t) - 1)) ELSE t

\* str.strip()
Strip(t) == StripRight(StripLeft(t))

\* " ".join(parts)
RECURSIVE JoinSpace(_)
JoinSpace(parts) ==
    IF parts = <<>> THEN <<>>
    ELSE IF Len(parts) = 1 THEN parts[1]
    ELSE parts[1] \o <<" ">> \o JoinSpace(Tail(parts))

\* what one backend call can do.  whisper: text, or load_model / transcribe raises.
\* google: text, UnknownValueError, RequestError, another exception inside the
\* try, or sr.AudioFile(chunk_path) failing to open the file (outside the try).
\* With whisper selected but not imported no call is made: transcribe_chunk_whisper
\* returns "" at once and the GUI loop skips the chunk (the engine check before
\* the run keeps both from happening).
BackendOutcomes(eng, avail) ==
    IF eng = "whisper" /\ ~avail
    THEN [kind : {"unavailable"}, raw : {<<>>}]
    ELSE [kind : {"text"}, raw : RawTexts]
         \cup [kind : {"error"}, raw : {<<>>}]
         \cup (IF eng = "google"
               THEN [kind : {"unintelligible", "request_error", "open_error"},
                     raw : {<<>>}]
               ELSE [kind : {"load_error"}, raw : {<<>>}])

\* the call raises out of transcribe_chunk_google: the with statement is not in its try
Raises(o) == o.kind = "open_error"

\* the value transcribe_chunk_whisper / transcribe_chunk_google returns
Returned(o) == IF o.kind = "text" THEN Strip(o.raw) ELSE <<>>

\* whisper.load_model calls one call of transcribe_chunk_whisper makes: the
\* first statement of its try, whatever was loaded before
LoadCalls(eng, o) == IF eng = "whisper" /\ o.kind # "unavailable" THEN 1 ELSE 0

\* the message the backend function logs before it returns
ResultMessage(o) ==
    CASE o.kind = "text"           -> "Segment Result"
      [] o.kind = "unintelligible" -> "Google API could not understand audio"
      [] o.kind = "request_error"  -> "Google API request failed"
      [] o.kind = "unavailable"    -> "ERROR: Whisper selected but not installed"
      [] OTHER                     -> "ERROR transcribing chunk"

\* main wraps each chunk in try / except Exception; run_transcription_process does not
LoopCatches(a) == a = "cli"

\* a slip: every result is appended, empty or not
Keep_All(text) == TRUE

\* "if text:" the loop appends non-empty results only
Keep(text) == text # <<>>

\* a slip: the guard on an empty chunk list is missing
NoChunks_Never(paths) == FALSE

\* "if not chunk_paths:"
NoChunks(paths) == paths = <<>>

\* a slip: the loop variable is not advanced
NextChunk_Same(c) == c

\* enumerate(chunk_paths) moves on to the next chunk
NextChunk(c) == c + 1

\* what the caller gets: run_transcription_process returns success, which only
\* the branch with a non-empty transcript sets; main returns None on every path
\* (exit status 0) and calls sys.exit(1) when the engine check fails
ReturnValue(a, o) ==
    IF a = "gui" THEN (IF o = "transcribed" THEN "True" ELSE "False")
    ELSE IF o = "backend_unavailable" THEN "exit 1" ELSE "exit 0"

\* runs the model follows in one session of the window
MaxRuns == 2

\* a ttk.Button in state 'disabled' does not invoke its command
ClickAccepted == start_button = "normal"

\* a slip: the Start button is left enabled while the thread runs
StartStateWhileRunning_Normal == "normal"

\* self.start_button.config(state='disabled')
StartStateWhileRunning == "disabled"

\* where the handling of a new run begins: the command line is at its engine
\* check; the window takes a click on Start with a URL in the entry
RunRequested ==
    IF app = "gui" THEN ClickAccepted /\ url # "" ELSE pc = "validate"

\* the locals of a run as a new call of the pipeline finds them
FreshLocals ==
    /\ temp_dir' = "unset"
    /\ chunk_paths' = <<>>
    /\ ci' = 0
    /\ results' = <<>>
    /\ full_transcript' = <<>>
    /\ final_text' = <<>>
    /\ outcome' = "none"
    /\ calls' = <<>>
    /\ model_loads' = 0
    /\ returned' = "none"
    /\ rmtree_calls' = 0
    /\ temp_files' = {}
    /\ chunks' = <<>>
    /\ i' = 0
    /\ j' = 0
    /\ num_sub_chunks' = 0
    /\ sub_chunk_len' = [m |-> <<>>, k |-> 0]
    /\ subs' = <<>>
    /\ processed_chunks_paths' = <<>>
    /\ total_chunks' = 0
    /\ export_failures' = 0

\* start_transcription_thread with an empty entry: an error box, nothing else
UrlEmpty ==
    /\ app = "gui"
    /\ ClickAccepted
    /\ url = ""
    /\ dialog' = "error"
    /\ UNCHANGED <<pc, after_queue, output_text, workers, runs, url, start_button,
                   save_button, completions, saved_file, calls, model_loads, returned,
                   cancel_requested>>
    /\ UNCHANGED splitVars
    /\ UNCHANGED runVars
    /\ UNCHANGED tmpVars

\* the engine check passes (main lines 220-226, start_transcription_thread
\* 386-391) and the run starts.  In the window the rest of the click handler
\* follows: both buttons disabled, the output cleared, the first message
\* logged, the worker thread started.
ValidateOk ==
    /\ RunRequested
    /\ ~(engine = "whisper" /\ ~whisper_available)
    /\ runs < MaxRuns
    /\ runs' = runs + 1
    /\ pc' = "mkdtemp"
    /\ FreshLocals
    /\ cancel_requested' = FALSE
    /\ IF app = "gui"
       THEN /\ start_button' = StartStateWhileRunning
            /\ save_button' = "disabled"
            /\ LET e == log_message(<<"Starting transcription process">>, after_queue,
                                    [state |-> "disabled", text |-> <<>>])
               IN  after_queue' = e.after_queue /\ output_text' = e.output_text
            /\ workers' = workers + 1
       ELSE UNCHANGED <<start_button, save_button, after_queue, output_text, workers>>
    /\ UNCHANGED <<audio_len, silence_out, chunk_length_limit_ms, app, engine,
                   whisper_available, url, completions, dialog, saved_file>>

\* the engine check fails: main prints and calls sys.exit(1); the click
\* handler shows an error box and returns
ValidateFail ==
    /\ RunRequested
    /\ engine = "whisper" /\ ~whisper_available
    /\ IF app = "gui"
       THEN dialog' = "error" /\ UNCHANGED <<pc, outcome, returned>>
       ELSE /\ outcome' = "backend_unavailable"
            /\ returned' = ReturnValue(app, outcome')
            /\ pc' = "done"
            /\ UNCHANGED dialog
    /\ UNCHANGED splitVars
    /\ UNCHANGED <<app, engine, whisper_available, temp_dir, chunk_paths, ci, results,
                   full_transcript, final_text>>
    /\ UNCHANGED <<calls, model_loads, workers, runs, after_queue, output_text, url,
                   start_button, save_button, completions, saved_file, cancel_requested>>
    /\ UNCHANGED tmpVars

\* temp_dir = tempfile.mkdtemp(...)
MkTemp ==
    /\ pc = "mkdtemp"
    /\ temp_dir' = "created"
    /\ pc' = "download"
    /\ UNCHANGED splitVars
    /\ UNCHANGED <<app, engine, whisper_available, chunk_paths, ci, results,
                   full_transcript, final_text, outcome>>
    /\ UNCHANGED <<calls, model_loads, returned, workers, runs>>
    /\ status_callback(<<"Created temporary directory">>)
    /\ UNCHANGED uiVars
    /\ UNCHANGED tmpVars

\* download_audio returned a path, that of the WAV file yt-dlp wrote into
\* temp_dir: split_audio_intelligently is called
DownloadOk ==
    /\ pc = "download"
    /\ pc' = "split_entry"
    /\ temp_files' = temp_files \cup {AudioFile}
    /\ UNCHANGED rmtree_calls
    /\ UNCHANGED splitVars
    /\ UNCHANGED runVars
    /\ UNCHANGED <<calls, model_loads, returned, workers, runs>>
    /\ status_callback(<<"--- Downloading Audio ---", "yt-dlp output",
                         "--- Splitting Audio ---">>)
    /\ UNCHANGED uiVars

\* download_audio returned None
DownloadFail ==
    /\ pc = "download"
    /\ outcome' = "download_failed"
    /\ pc' = "finally"
    /\ UNCHANGED splitVars
    /\ UNCHANGED <<app, engine, whisper_available, temp_dir, chunk_paths, ci, results,
                   full_transcript, final_text>>
    /\ UNCHANGED <<calls, model_loads, returned, workers, runs>>
    /\ status_callback(<<"--- Downloading Audio ---", "yt-dlp output",
                         "ERROR: Audio download failed">>)
    /\ UNCHANGED uiVars
    /\ UNCHANGED tmpVars

\* "if not chunk_paths: ... return"
ChunksEmpty ==
    /\ pc = "split_returned"
    /\ app # "none"
    /\ NoChunks(chunk_paths)
    /\ outcome' = "no_chunks"
    /\ pc' = "finally"
    /\ UNCHANGED splitVars
    /\ UNCHANGED <<app, engine, whisper_available, temp_dir, chunk_paths, ci, results,
                   full_transcript, final_text>>
    /\ UNCHANGED <<calls, model_loads, returned, workers, runs>>
    /\ status_callback(<<"ERROR: Audio splitting failed or produced no chunks">>)
    /\ UNCHANGED uiVars
    /\ UNCHANGED tmpVars

\* otherwise the transcription loop starts
ChunksPresent ==
    /\ pc = "split_returned"
    /\ app # "none"
    /\ ~NoChunks(chunk_paths)
    /\ ci' = 1
    /\ pc' = "transcribe"
    /\ UNCHANGED splitVars
    /\ UNCHANGED <<app, engine, whisper_available, temp_dir, chunk_paths, results,
                   full_transcript, final_text, outcome>>
    /\ UNCHANGED <<calls, model_loads, returned, workers, runs>>
    /\ status_callback(<<"--- Transcribing Chunks ---">>)
    /\ UNCHANGED uiVars
    /\ UNCHANGED tmpVars

\* the loop takes the next chunk and calls the backend function for it
BeginChunk ==
    /\ pc = "transcribe"
    /\ ci <= Len(chunk_paths)
    /\ calls' = Append(calls, ci)
    /\ pc' = "backend"
    /\ status_callback(<<"Processing chunk", "Transcribing chunk">>)
    /\ UNCHANGED splitVars
    /\ UNCHANGED runVars
    /\ UNCHANGED <<model_loads, returned, workers, runs>>
    /\ UNCHANGED uiVars
    /\ UNCHANGED tmpVars

\* the backend call comes back and the pass of
\* "for i, chunk_path in enumerate(chunk_paths)" runs to its end
TranscribeChunk ==
    /\ pc = "backend"
    /\ \E o \in BackendOutcomes(engine, whisper_available) :
          /\ Raises(o) => LoopCatches(app)
          /\ LET text == IF Raises(o) THEN <<>> ELSE Returned(o)
             IN  /\ results' = Append(results, [chunk |-> ci, name |-> chunk_paths[ci].name,
                                                kind |-> o.kind, text |-> text])
                 /\ full_transcript' = IF ~Raises(o) /\ Keep(text)
                                       THEN Append(full_transcript, text)
                                       ELSE full_transcript
          /\ model_loads' = model_loads + LoadCalls(engine, o)
          /\ status_callback(<<ResultMessage(o)>>)
    /\ ci' = NextChunk(ci)
    /\ pc' = "transcribe"
    /\ UNCHANGED splitVars
    /\ UNCHANGED <<app, engine, whisper_available, temp_dir, chunk_paths, final_text,
                   outcome>>
    /\ UNCHANGED <<calls, returned, workers, runs>>
    /\ UNCHANGED uiVars
    /\ UNCHANGED tmpVars

\* the backend raises and nothing in the loop catches it: the exception reaches
\* "except Exception" of run_transcription_process, which returns False
TranscribeAbort ==
    /\ pc = "backend"
    /\ \E o \in BackendOutcomes(engine, whisper_available) :
          /\ Raises(o)
          /\ ~LoopCatches(app)
          /\ results' = Append(results, [chunk |-> ci, name |-> chunk_paths[ci].name,
                                         kind |-> o.kind, text |-> <<>>])
          /\ model_loads' = model_loads + LoadCalls(engine, o)
    /\ outcome' = "critical_error"
    /\ pc' = "finally"
    /\ UNCHANGED splitVars
    /\ UNCHANGED <<app, engine, whisper_available, temp_dir, chunk_paths, ci,
                   full_transcript, final_text>>
    /\ UNCHANGED <<calls, returned, workers, runs>>
    /\ status_callback(<<"--- CRITICAL ERROR ---", "An unexpected error occurred",
                         "traceback">>)
    /\ UNCHANGED uiVars
    /\ UNCHANGED tmpVars

\* the five output_widget.after(0, ...) calls that put the transcript in place
\* of the log: configure normal, delete, insert, configure disabled, see
ShowItems(text) ==
    <<[op |-> "configure", arg |-> <<"normal">>],
      [op |-> "delete", arg |-> <<>>],
      [op |-> "insert", arg |-> text],
      [op |-> "configure", arg |-> <<"disabled">>],
      [op |-> "see", arg |-> <<>>]>>

\* final_text = " ".join(full_transcript).strip(); "if final_text:" save / success.
\* The window logs the end of the loop, schedules the display of the transcript
\* and logs that it is displayed; without text it logs a warning.
Assemble ==
    /\ pc = "transcribe"
    /\ ci > Len(chunk_paths)
    /\ final_text' = Strip(JoinSpace(full_transcript))
    /\ outcome' = IF final_text' # <<>> THEN "transcribed" ELSE "no_text"
    /\ pc' = "finally"
    /\ IF app = "gui"
       THEN LET e1 == log_message(<<"--- Transcription Complete ---">>, after_queue,
                                  output_text)
                e2 == IF final_text' # <<>>
                      THEN log_message(<<"\nFinal transcript displayed above">>,
                                       e1.after_queue \o ShowItems(final_text'),
                                       e1.output_text)
                      ELSE log_message(<<"WARNING: Transcription finished but produced no text">>,
                                       e1.after_queue, e1.output_text)
            IN  after_queue' = e2.after_queue /\ output_text' = e2.output_text
       ELSE UNCHANGED <<after_queue, output_text>>
    /\ UNCHANGED splitVars
    /\ UNCHANGED <<app, engine, whisper_available, temp_dir, chunk_paths, ci, results,
                   full_transcript>>
    /\ UNCHANGED <<calls, model_loads, returned, workers, runs>>
    /\ UNCHANGED uiVars
    /\ UNCHANGED tmpVars

\* a slip: the finally block never finds a directory to remove
CleanupDue_Never(dir) == FALSE

\* if temp_dir and os.path.exists(temp_dir)
CleanupDue(dir) == dir = "created"

\* what shutil.rmtree leaves of the directory: nothing when it returns; when
\* it raises, the files are kept as they were
Rmtree(ok, files) == IF ok THEN {} ELSE files

\* finally: shutil.rmtree(temp_dir) inside its own try, ok = FALSE when it
\* raises (caught, a warning logged); then the return statement taken earlier
\* hands its value to the caller
CleanupWith(ok) ==
    /\ pc = "finally"
    /\ IF CleanupDue(temp_dir)
       THEN /\ rmtree_calls' = rmtree_calls + 1
            /\ temp_files' = Rmtree(ok, temp_files)
            /\ temp_dir' = IF ok THEN "removed" ELSE temp_dir
            /\ status_callback(IF ok
                               THEN <<"Cleaning up temporary directory",
                                      "Cleanup complete">>
                               ELSE <<"Cleaning up temporary directory",
                                      "Warning: Could not remove temp directory">>)
       ELSE UNCHANGED <<rmtree_calls, temp_files, temp_dir, after_queue, output_text>>
    /\ returned' = ReturnValue(app, outcome)
    /\ pc' = "done"
    /\ UNCHANGED splitVars
    /\ UNCHANGED <<app, engine, whisper_available, chunk_paths, ci, results,
                   full_transcript, final_text, outcome>>
    /\ UNCHANGED <<calls, model_loads, workers, runs>>
    /\ UNCHANGED uiVars

\* the finally block when rmtree returns, or when there is nothing to remove
Cleanup == CleanupWith(TRUE)

\* the finally block when rmtree raises: the directory stays on disk
CleanupFails == CleanupDue(temp_dir) /\ CleanupWith(FALSE)

\* a slip: the completion callback is not scheduled
CompleteItems_None(ret) == <<>>

\* self.root.after(0, lambda: self.on_transcription_complete(success))
CompleteItems(ret) == <<[op |-> "complete", arg |-> <<ret>>]>>

\* run_transcription_wrapper, finally: self.root.after(0, lambda:
\* self.on_transcription_complete(success)); the thread function returns
WrapperFinally ==
    /\ app = "gui"
    /\ pc = "done"
    /\ workers > 0
    /\ after_queue' = after_queue \o CompleteItems(returned)
    /\ workers' = workers - 1
    /\ pc' = "thread_end"
    /\ UNCHANGED splitVars
    /\ UNCHANGED runVars
    /\ UNCHANGED <<calls, model_loads, returned, runs, output_text>>
    /\ UNCHANGED uiVars
    /\ UNCHANGED tmpVars

\* the command line and the worker thread of the window, with the click
\* handler that starts it
NextRun ==
    \/ UrlEmpty
    \/ ValidateOk
    \/ MkTemp
    \/ DownloadOk
    \/ DownloadFail
    \/ NextSplit
    \/ ChunksEmpty
    \/ ChunksPresent
    \/ BeginChunk
    \/ TranscribeChunk
    \/ TranscribeAbort
    \/ Assemble
    \/ Cleanup
    \/ WrapperFinally

Next ==
    \/ ValidateFail
    \/ CleanupFails
    \/ NextRun

\* a run of either program with the default limit.  The GUI offers the whisper
\* engine only when the library was imported.
Init ==
    /\ app \in {"cli", "gui"}
    /\ engine \in {"whisper", "google"}
    /\ whisper_available \in BOOLEAN
    /\ app = "gui" /\ engine = "whisper" => whisper_available
    /\ pc = "validate"
    /\ \E limit \in {DEFAULT_LIMIT} :
          /\ SplitInput(limit, RunLens)
          /\ audio_len <= MaxRunAudio
    /\ SplitFresh
    /\ RunIdle
    /\ UiFresh
    /\ url \in (IF app = "gui" THEN {"", "u"} ELSE {"u"})

\* the pipeline of either program; in the window, the worker thread while the
\* Tk main loop has not run any scheduled callback yet
Spec == Init /\ [][Next]_vars

\* the user asks for the run to be cancelled while the loop is between two
\* chunks.  Neither program offers a control for it and no statement reads the
\* request: it is recorded to compare the loop with.
RequestCancel ==
    /\ pc = "transcribe"
    /\ ci <= Len(chunk_paths)
    /\ ~cancel_requested
    /\ cancel_requested' = TRUE
    /\ UNCHANGED <<pc, after_queue, output_text, workers, runs, url, start_button,
                   save_button, completions, dialog, saved_file, calls, model_loads,
                   returned>>
    /\ UNCHANGED splitVars
    /\ UNCHANGED runVars
    /\ UNCHANGED tmpVars

NextCancel ==
    \/ Next
    \/ RequestCancel

\* the pipeline with a user who may ask for cancellation
CancelSpec == Init /\ [][NextCancel]_vars

----------------------------------------------------------------------------
(* The Tk main thread *)

\* what running one scheduled widget callback does to the output widget; a
\* Text widget in state 'disabled' ignores insert and delete
Applied(item, w) ==
    CASE item.op = "log"       -> [state |-> "disabled", text |-> w.text \o Lines(item.arg)]
      [] item.op = "configure" -> [w EXCEPT !.state = item.arg[1]]
      [] item.op = "delete"    -> IF w.state = "normal" THEN [w EXCEPT !.text = <<>>] ELSE w
      [] item.op = "insert"    -> IF w.state = "normal"
                                  THEN [w EXCEPT !.text = w.text \o item.arg] ELSE w
      [] OTHER                 -> w

\* a slip: the Save button is enabled whatever the run returned
CompletionFor_Always(ret) == [save_button |-> "normal", dialog |-> "info"]

\* on_transcription_complete(success): the Save button and the message box
CompletionFor(ret) ==
    IF ret = "True" THEN [save_button |-> "normal", dialog |-> "info"]
    ELSE [save_button |-> "disabled", dialog |-> "error"]

\* the main loop runs the oldest scheduled callback that updates the output
RunCallback ==
    /\ after_queue # <<>>
    /\ Head(after_queue).op # "complete"
    /\ output_text' = Applied(Head(after_queue), output_text)
    /\ after_queue' = Tail(after_queue)
    /\ UNCHANGED pc
    /\ UNCHANGED splitVars
    /\ UNCHANGED runVars
    /\ UNCHANGED <<calls, model_loads, returned, workers, runs>>
    /\ UNCHANGED uiVars
    /\ UNCHANGED tmpVars

\* the main loop runs lambda: self.on_transcription_complete(success)
OnTranscriptionComplete ==
    /\ after_queue # <<>>
    /\ Head(after_queue).op = "complete"
    /\ start_button' = "normal"
    /\ save_button' = CompletionFor(Head(after_queue).arg[1]).save_button
    /\ dialog' = CompletionFor(Head(after_queue).arg[1]).dialog
    /\ completions' = completions + 1
    /\ after_queue' = Tail(after_queue)
    /\ UNCHANGED pc
    /\ UNCHANGED splitVars
    /\ UNCHANGED runVars
    /\ UNCHANGED <<calls, model_loads, returned, workers, runs, output_text, url,
                   saved_file, cancel_requested>>
    /\ UNCHANGED tmpVars

\* save_transcript with a file chosen: the stripped content of the output
\* widget is written to it
SaveTranscript ==
    /\ save_button = "normal"
    /\ saved_file' = [written |-> TRUE, text |-> Strip(output_text.text)]
    /\ dialog' = "info"
    /\ UNCHANGED <<pc, after_queue, output_text>>
    /\ UNCHANGED splitVars
    /\ UNCHANGED runVars
    /\ UNCHANGED <<calls, model_loads, returned, workers, runs, url, start_button,
                   save_button, completions, cancel_requested>>
    /\ UNCHANGED tmpVars

NextUi ==
    \/ RunCallback
    \/ OnTranscriptionComplete
    \/ SaveTranscript

NextGui ==
    \/ NextRun
    \/ NextUi

\* what split_on_silence returns for the recordings the window is exercised
\* with: no silence found, one short, one ordinary or one over-long segment
GuiRecordings == {<<>>, <<50>>, <<100>>, <<130000>>}

\* the window after TranscriptionApp.__init__, with the recording behind the
\* URL the user entered; the temporary directories of its runs are removable
InitGui ==
    /\ app = "gui"
    /\ Init
    /\ silence_out \in GuiRecordings

\* the window: the main thread and the worker thread in every interleaving
GuiSpec == InitGui /\ [][NextGui]_vars

\* a step of the thread that runs run_transcription_wrapper
WorkerStep ==
    \/ MkTemp
    \/ DownloadOk
    \/ DownloadFail
    \/ NextSplit
    \/ ChunksEmpty
    \/ ChunksPresent
    \/ BeginChunk
    \/ TranscribeChunk
    \/ TranscribeAbort
    \/ Assemble
    \/ Cleanup
    \/ WrapperFinally

\* the Tk main loop runs the oldest scheduled callback
MainLoopStep ==
    \/ RunCallback
    \/ OnTranscriptionComplete

\* the window with both threads making progress: the worker thread is
\* scheduled and the external calls it makes return; root.mainloop() runs
\* every callback scheduled with after.  Clicks are left to the user.
GuiLiveSpec ==
    /\ GuiSpec
    /\ WF_vars(WorkerStep)
    /\ WF_vars(MainLoopStep)

----------------------------------------------------------------------------
(* Properties of split_audio_intelligently *)

\* length of an exported chunk: the slice chunk[start_ms:end_ms], or the whole segment
Dur(r) == r.end_ms - r.start_ms

\* the bounding loop has been entered
InLoop == pc \in {"split_loop", "split_sub", "split_returned"} /\ i >= 1

\* the inner loop of split segment seg has computed all its sub-chunks
SegDone(seg) == i > seg \/ (i = seg /\ pc = "split_sub" /\ j >= num_sub_chunks)

SubsOf(seg) == SelectSeq(subs, LAMBDA r : r.seg = seg)

LongSegs == {seg \in 1..Len(chunks) : chunks[seg] > chunk_length_limit_ms}

\* C1: every exported chunk, passed through or cut from an over-long segment,
\* lasts at most chunk_length_limit_ms.
C1_ChunkWithinLimit ==
    \A p \in 1..Len(processed_chunks_paths) :
        Dur(processed_chunks_paths[p]) <= chunk_length_limit_ms

\* a call has returned a chunk cut from an over-long segment and a whole segment
C1_Witness ==
    /\ pc = "split_returned"
    /\ \E p, q \in 1..Len(chunk_paths) :
          /\ chunk_paths[p].seg \in LongSegs
          /\ chunk_paths[q].seg \notin LongSegs

\* C2: the sub-chunks of a time-split segment tile it: the first starts at 0,
\* each starts where the previous one ends, and the last ends at the segment's
\* length, so no millisecond is lost or duplicated.
C2_SubChunksTile ==
    \A seg \in LongSegs :
        SegDone(seg) =>
            LET ss == SubsOf(seg)
            IN  /\ Len(ss) >= 1
                /\ ss[1].start_ms = 0
                /\ \A t \in 2..Len(ss) : ss[t].start_ms = ss[t - 1].end_ms
                /\ ss[Len(ss)].end_ms = chunks[seg]
                /\ Sum([t \in 1..Len(ss) |-> Dur(ss[t])]) = chunks[seg]

\* C3: no exported chunk is shorter than 100 ms, whatever the segment lengths
\* and the limit.
C3_NoShortChunk ==
    \A p \in 1..Len(processed_chunks_paths) :
        Dur(processed_chunks_paths[p]) >= MIN_CHUNK_MS

\* C4: the returned files are chunk_0 .. chunk_{k-1} in temporal order, whatever
\* was skipped and whichever exports failed.
C4_ContiguousNames ==
    /\ \A p \in 1..Len(processed_chunks_paths) : processed_chunks_paths[p].name = p - 1
    /\ \A p, q \in 1..Len(processed_chunks_paths) :
          p < q =>
            LET a == processed_chunks_paths[p]
                b == processed_chunks_paths[q]
            IN  a.seg < b.seg \/ (a.seg = b.seg /\ a.end_ms <= b.start_ms)
    /\ pc = "split_returned" /\ i >= 1 => chunk_paths = processed_chunks_paths

\* a call that skipped a short segment and had an export fail has returned chunks
C4_Witness ==
    /\ pc = "split_returned"
    /\ export_failures >= 1
    /\ Len(chunk_paths) >= 1
    /\ \E seg \in 1..Len(chunks) :
          chunks[seg] < MIN_CHUNK_MS /\ seg < chunk_paths[Len(chunk_paths)].seg

\* C5: an over-long segment of length L is cut into exactly ceil(L / limit)
\* sub-chunks (the fewest that fit the limit), none empty, whose lengths are
\* floor(L / n) or that plus one, and all equal when n divides L: 130000 ms
\* under a limit of 120000 gives two of 65000 ms.
C5_EvenSplit ==
    \A seg \in LongSegs :
        SegDone(seg) =>
            LET ss == SubsOf(seg)
                L  == chunks[seg]
                n  == Len(ss)
            IN  /\ n * chunk_length_limit_ms >= L
                /\ (n - 1) * chunk_length_limit_ms < L
                /\ \A t \in 1..n :
                      /\ Dur(ss[t]) >= 1
                      /\ Dur(ss[t]) \in {L \div n, (L \div n) + 1}
                      /\ L % n = 0 => Dur(ss[t]) = L \div n
                /\ (L = 130000 /\ chunk_length_limit_ms = 120000) =>
                      ss = <<[seg |-> seg, j |-> 0, start_ms |-> 0, end_ms |-> 65000],
                             [seg |-> seg, j |-> 1, start_ms |-> 65000, end_ms |-> 130000]>>

\* a segment has been cut into sub-chunks of unequal length (n does not divide L)
C5_Witness ==
    \E seg \in LongSegs :
        /\ SegDone(seg)
        /\ chunks[seg] % Len(SubsOf(seg)) # 0
        /\ Len(SubsOf(seg)) >= 3

\* C6: the bounding loop always gets at least one candidate segment; when
\* silence detection returns nothing the candidates are the whole recording alone.
C6_CandidatesNonEmpty ==
    InLoop =>
        /\ Len(chunks) >= 1
        /\ silence_out = <<>> => chunks = <<audio_len>>
        /\ silence_out # <<>> => chunks = silence_out

\* the loop runs on the whole recording because no silence was found
C6_Witness ==
    /\ pc = "split_loop"
    /\ silence_out = <<>>
    /\ audio_len >= 1
    /\ i = 1

----------------------------------------------------------------------------
(* Properties of the run *)

\* the run is over or in its finally block
Ended == pc \in {"finally", "done"}

\* split_audio_intelligently was called and has returned
SplitCalled == Ended /\ outcome \notin {"backend_unavailable", "download_failed"}

TextChunks == {t \in 1..Len(results) : results[t].text # <<>>}

\* the texts of rs, each followed by one space except the last
RECURSIVE Glue(_)
Glue(rs) ==
    IF rs = <<>> THEN <<>>
    ELSE rs[1].text \o (IF Len(rs) > 1 THEN <<" ">> ELSE <<>>) \o Glue(Tail(rs))

\* C7: when split_audio_intelligently returns no chunk the run ends with the
\* no-chunks outcome and no backend call is made, in main and in
\* run_transcription_process.
C7_NoChunksNoCalls ==
    /\ chunk_paths = <<>> => results = <<>>
    /\ SplitCalled /\ chunk_paths = <<>> => outcome = "no_chunks"

\* a run whose only segment was too short has ended
C7_Witness ==
    /\ pc = "done"
    /\ outcome = "no_chunks"
    /\ i > Len(chunks)
    /\ Len(chunks) >= 1

\* C8: a failing chunk never aborts the run: once the run is past the loop,
\* every chunk has been submitted to the backend.
C8_EveryChunkSubmitted ==
    Ended /\ chunk_paths # <<>> =>
        \A c \in 1..Len(chunk_paths) : \E t \in 1..Len(results) : results[t].chunk = c

\* C9: the final transcript is the non-empty chunk texts, in chunk order, with
\* one space between neighbours and nothing else.
C9_TranscriptIsJoin ==
    /\ \A t \in 1..Len(results) : results[t].chunk = t
    /\ outcome \in {"transcribed", "no_text"} =>
          final_text = Glue(SelectSeq(results, LAMBDA r : r.text # <<>>))

\* a transcript was assembled around a chunk that gave no text
C9_Witness ==
    /\ outcome = "transcribed"
    /\ Len(results) >= 3
    /\ results[1].text # <<>>
    /\ results[2].text = <<>>
    /\ results[3].text # <<>>
    /\ results[1].text # results[3].text

\* C10: a run that reached the transcription loop ends successfully exactly
\* when some chunk gave non-empty text.
C10_SuccessIffText ==
    pc = "done" /\ chunk_paths # <<>> =>
        (outcome = "transcribed" <=> TextChunks # {})

\* what the transcription loop receives from the backend call for a chunk: the
\* returned string, or the fact that the call raised
Seen(r) == [text |-> r.text, raised |-> r.kind = "open_error"]

\* C11: with the Google backend a chunk the service could not understand and a
\* chunk whose request failed give the loop different results, and neither
\* ends the run with the critical-error outcome.
C11_EmptyVsFailed ==
    /\ \A t, u \in 1..Len(results) :
          results[t].kind = "unintelligible" /\ results[u].kind = "request_error"
              => Seen(results[t]) # Seen(results[u])
    /\ \A t \in 1..Len(results) :
          results[t].kind \in {"unintelligible", "request_error"}
              /\ outcome = "critical_error" => t < Len(results)

\* on_transcription_complete has run for the run started last
RunCompleted == pc = "thread_end" /\ completions = runs

\* C12: a run that processed chunks and assembled no text ends in a way its
\* caller can tell from the zero-chunks ending: run_transcription_process
\* returns another value than it does for zero chunks, and the completion
\* handler leaves another Save state and message box.
C12_NoTextDistinct ==
    outcome = "no_text" =>
        /\ returned # "none" => returned # ReturnValue(app, "no_chunks")
        /\ RunCompleted =>
              [save_button |-> save_button, dialog |-> dialog]
                  # CompletionFor(ReturnValue(app, "no_chunks"))

\* backend calls started whose result the loop has not recorded yet
InFlight == Len(calls) - Len(results)

SuccessfulRunCompleted == RunCompleted /\ returned = "True"

\* C14: after a successful run of the window has completed, the output widget
\* holds the final transcript and nothing else, and what save_transcript
\* writes is the final transcript.
C14_WidgetIsTranscript ==
    SuccessfulRunCompleted =>
        /\ output_text.text = final_text
        /\ saved_file.written => saved_file.text = final_text

\* the output widget or a button is not what it was
WidgetChanged ==
    \/ output_text' # output_text
    \/ start_button' # start_button
    \/ save_button' # save_button

\* C15: no step of the worker thread changes the output widget or the Start
\* and Save buttons; apart from the click handler that starts the run, every
\* change to them is made by the main thread running the oldest callback
\* scheduled with after.
C15_WorkerLeavesWidgets ==
    [][/\ WorkerStep => ~WidgetChanged
       /\ WidgetChanged /\ ~ValidateOk =>
             after_queue # <<>> /\ after_queue' = Tail(after_queue)]_vars

\* in the middle of the loop the main thread has applied some of the worker's
\* messages and others are still scheduled
C15_Witness ==
    /\ app = "gui"
    /\ pc = "backend"
    /\ Len(output_text.text) >= 4
    /\ after_queue # <<>>

\* C16: with the whisper backend the model is loaded at most once in a run,
\* however many chunks are transcribed.
C16_ModelLoadedOnce == model_loads <= 1

\* results that report the backend itself as unusable: whisper not imported,
\* or its model not loadable
UnavailableKinds == {"unavailable", "load_error"}

\* C17: an unusable backend is found before the run starts, with no temporary
\* directory made and no chunk submitted, and ends the run at once; the
\* transcription loop never meets it.
C17_UnavailableBeforeRun ==
    /\ outcome = "backend_unavailable" =>
          temp_dir = "unset" /\ calls = <<>> /\ results = <<>>
    /\ \A t \in 1..Len(results) : results[t].kind \notin UnavailableKinds

\* C18: a request to cancel is honoured between chunks: once it is made the
\* loop starts no further chunk, and the run does not end with a transcript
\* or with any of the uncancelled outcomes.
C18_CancelStopsRun ==
    [][cancel_requested => ~BeginChunk /\ ~Assemble]_vars

\* a run was started whose on_transcription_complete has not run yet
RunInProgress == runs > completions

\* C19: in the window at most one worker thread is alive, and from the start
\* of a run until its on_transcription_complete has run the Start button is
\* disabled, so no second run starts in between.
C19_OneWorker ==
    /\ workers <= 1
    /\ runs - completions \in {0, 1}
    /\ RunInProgress => start_button = "disabled"
    /\ workers = 1 => RunInProgress

\* the second run of a session has ended its thread and waits for its
\* completion handler, the Start button still disabled
C19_Witness ==
    /\ runs = 2
    /\ completions = 1
    /\ workers = 0
    /\ pc = "thread_end"
    /\ start_button = "disabled"

\* C20: every run started in the window gets its on_transcription_complete,
\* once and no more, whichever way run_transcription_process ended, and the
\* Start button is enabled again.
C20_RunCompletes ==
    /\ [](completions <= runs)
    /\ RunInProgress ~> (completions = runs /\ start_button = "normal")

\* a run that ended in the catch-all handler has had its completion handler
C20_Witness ==
    /\ RunCompleted
    /\ outcome = "critical_error"
    /\ start_button = "normal"
    /\ dialog = "error"

\* the main loop runs the completion handler of a run that returned False
FailedRunCompletes ==
    OnTranscriptionComplete /\ Head(after_queue).arg[1] # "True"

\* C21: in the window the Save button is disabled while a run is in progress;
\* it is enabled only when the run completed last returned True, which it
\* does exactly when its transcript is not empty; the click that starts a run
\* and the completion of a failed run both leave it disabled.
C21_SaveOnlyAfterSuccess ==
    /\ [](RunInProgress => save_button = "disabled")
    /\ [](save_button = "normal" =>
             /\ completions > 0
             /\ completions = runs
             /\ returned = "True"
             /\ final_text # <<>>)
    /\ [](returned = "True" <=> (pc \in {"done", "thread_end"} /\ final_text # <<>>))
    /\ [][ValidateOk \/ FailedRunCompletes => save_button' = "disabled"]_vars

\* the second run of a session is in its loop, the first one succeeded and
\* its transcript was saved: the Save button is disabled again
C21_Witness ==
    /\ runs = 2
    /\ completions = 1
    /\ pc = "backend"
    /\ saved_file.written
    /\ save_button = "disabled"

\* run_transcription_process or main has run its finally block
RunReturned == pc \in {"done", "thread_end"}

\* C22: a run that created a temporary directory calls rmtree on it exactly
\* once, in the finally block it leaves through, whichever way it ended
\* (download failure, no chunks, no text, a saved transcript or an exception
\* in the loop), and never before; when rmtree returned, neither the
\* downloaded audio nor any chunk file is left.
C22_TempDirRemovedOnce ==
    /\ rmtree_calls <= 1
    /\ ~RunReturned => rmtree_calls = 0
    /\ RunReturned /\ temp_dir # "unset" => rmtree_calls = 1
    /\ RunReturned /\ temp_dir = "removed" => temp_files = {}
    /\ temp_dir = "unset" => temp_files = {} /\ rmtree_calls = 0

\* a run of the window that exported three chunks and ended in the catch-all
\* handler has removed its directory
C22_Witness ==
    /\ RunReturned
    /\ outcome = "critical_error"
    /\ Len(chunk_paths) = 3
    /\ temp_dir = "removed"
    /\ rmtree_calls = 1
    /\ temp_files = {}

====
